---- MODULE Spec2Model ----
(***************************************************************************)
(* State-machine model of the ioBroker Grohe Smarthome adapter:            *)
(*   lib/auth.js        GroheAuth   (login retry loop, refresh, tokens)    *)
(*   lib/groheClient.js GroheClient (authenticated request, 401 retry)     *)
(*   main.js            adapter     (onReady, pollDevices, onStateChange)  *)
(* Time is counted in milliseconds, as Date.now() does.  One step of the   *)
(* adapter clock is HttpTimeoutMs, the timeout of every API request, so a  *)
(* request is answered (or times out) no later than one step after it was  *)
(* sent.  Every handler runs from one network await to the next in one     *)
(* action, as one turn of the JavaScript event loop does.                  *)
(***************************************************************************)
EXTENDS Integers, Sequences, FiniteSets, TLC

\* ---------------------------------------------------------------- bounds
MaxTicks == 4      \* the adapter clock runs from 0 to MaxTicks * HttpTimeoutMs
MaxCycles == 3      \* poll cycles started (the initial one included)
MaxTok == 2      \* token responses the provider grants
MaxLoginTicks == 8  \* the clock of a stand-alone login runs MaxLoginTicks seconds

\* ------------------------------------------------------ program constants
HttpTimeoutMs     == 15000   \* axios.create({ timeout: 15000 })
DefaultLifetime   == 3600    \* data.expires_in || 3600
SafetyMarginS     == 60      \* (expiresIn - 60) * 1000
MinPollInterval   == 30      \* Math.max(30, ...)
DefaultPollInterval == 300   \* Number(...) || 300
LoginAttempts     == 3       \* for (let attempt = 1; attempt <= 3; attempt++)
LoginBackoffMs    == 2000    \* setTimeout(r, attempt * 2000)
GROHE_SENSE       == 101
GROHE_SENSE_GUARD == 103

\* ------------------------------------------------------------ input sets
\* config.pollInterval as entered: 0 stands for missing / zero / not a number
PollIntervals == {0, 30, 1800}
\* expires_in of a token response (0: the field is missing or zero)
Lifetimes == {0, 60, 75}
\* HTTP status of an API answer
Statuses == {200, 401, 403, 404}
\* ways a refresh POST fails: rejected by the provider (HTTP 400/401), or a
\* 200 answer without access_token
RefreshErrors == {"rejected", "noAccessToken"}
\* ways one _doLogin attempt fails
LoginErrors == {"InvalidCredentials", "FormNotFound", "TokenResponseInvalid"}
\* local time of day (ms after midnight) at which the process starts
LocalStarts == {36000000, 54000000}

Guard1 == [id |-> 1, type |-> GROHE_SENSE_GUARD, registration_complete |-> TRUE]
Sense2 == [id |-> 2, type |-> GROHE_SENSE, registration_complete |-> FALSE]
Sense3 == [id |-> 3, type |-> GROHE_SENSE, registration_complete |-> TRUE]
\* appliance lists a dashboard answer may carry
Dashboards == { << >>, <<Sense2, Guard1>>, <<Sense2, Guard1, Sense3>> }
\* GET .../pressuremeasurement: the items of the result, latest first
PressureResults == { << >>, << [drop_of_pressure |-> 1, leakage |-> FALSE] >> }
\* GET .../command: the data of the response
CommandReads ==
  { [appliance_id |-> 1, command |-> << >>],
    [appliance_id |-> 1,
     command |-> << << "valve_open", FALSE >>, << "measure_now", FALSE >> >>] }
\* the control states of a Sense Guard a user writes true to
Controls == { "controls.valveOpen", "controls.startPressureMeasurement" }
\* refresh tokens a caller of the client adopts
AdoptedTokens == { 1 }

CmdProc == 0                       \* the onStateChange handler
PollProcs == 1..MaxCycles          \* pollDevices invocation number c
Procs == {CmdProc} \cup PollProcs

VARIABLES
  cfg,          \* this.config: [email, password, pollInterval]
  appliances,   \* the account: the appliances its dashboard lists
  localStart,   \* local time of day at now = 0
  now,          \* Date.now()
  client,       \* this.client # null
  auth,         \* GroheAuth: [accessToken, refreshToken, expiresAt]; 0 is null
  store,        \* state auth.refreshToken: [enc, val]; val 0 is the empty string
  connection,   \* state info.connection
  devices,      \* this.devices (keys)
  pollTimer,    \* this.pollTimer: [armed, period, due]
  ready,        \* onReady: [pc, sentAt]
  login,        \* GroheAuth.login: [pc, attempt, wakeAt, err, raised, starts, ends, waits]
  task,         \* per process: position of pollDevices / onStateChange
  call,         \* per process: position of GroheClient.request
  tokSeq,       \* provider: number of token responses granted so far
  pollCounter,  \* number of pollDevices invocations so far
  failures,     \* history: consecutive poll cycles whose getDashboard failed
                \* (the catch branch ran); the adapter keeps no such field
  prevFailures, \* history: value of failures when the last success ended the run
  turn,         \* history: what the event-loop turn just taken handled and did
                \* (kept in the specifications that set turn.on)
  chain,        \* _doLogin, steps 1-3: [pc, i, host, jar, action, header] and
                \* history: the value set last per cookie (latest) and per
                \* name (seen)
  tokenState,   \* state auth.refreshToken as text: [val] and history: the
                \* last call (op), the token it was given (saved), what it
                \* returned (got), whether it called setState (wrote)
  doLogin,      \* GroheAuth.login, _doLogin and refresh request by request:
                \* [pc, attempt, i, url, err, result] and history: the
                \* requests of the attempt (gets, posts, follows, exchanges),
                \* the response handled last (op, resp) and the address
                \* it was asked from (asked)
  writers       \* setApplianceCommand calls that overlap: [server, w] with
                \* the cloud's command object and, per call, [pc, fields,
                \* read, body]

coreVars == << cfg, appliances, localStart, now, client, auth, store,
               connection, devices, pollTimer, ready, login, task, call,
               tokSeq, pollCounter, failures, prevFailures, turn >>
adapterVars == << coreVars, tokenState, doLogin, writers >>
\* every variable except auth and doLogin
sessionFrame == << cfg, appliances, localStart, now, client, store, connection,
                  devices, pollTimer, ready, login, task, call, tokSeq,
                  pollCounter, failures, prevFailures, turn, chain,
                  tokenState, writers >>

vars == << cfg, appliances, localStart, now, client, auth, store, connection, devices,
           pollTimer, ready, login, task, call, tokSeq, pollCounter,
           failures, prevFailures, turn, chain, tokenState, doLogin,
           writers >>

\* ------------------------------------------------------------- encryption
\* this.encrypt / this.decrypt of the adapter core: a keyed bijection
Encrypt(t) == t + 100
Decrypt(c) == c - 100

EmptyStore == [enc |-> FALSE, val |-> 0]
StoredValues == { EmptyStore, [enc |-> TRUE, val |-> Encrypt(1)],
                  [enc |-> FALSE, val |-> 1] }

\* auth.refreshToken state -> token handed to setRefreshToken (_readRefreshToken)
ReadRefreshToken(st) ==
  IF st.val = 0 THEN 0
  ELSE IF st.enc THEN Decrypt(st.val)
  ELSE st.val

\* _persistRefreshToken(newToken): the state after the call
PersistRefreshToken(st, newToken) ==
  IF newToken = 0 THEN st
  ELSE [enc |-> TRUE, val |-> Encrypt(newToken)]

\* the state after _readRefreshToken: a legacy value is re-saved encrypted
StoreAfterRead(st) ==
  IF st.val # 0 /\ ~st.enc THEN PersistRefreshToken(st, st.val) ELSE st

\* ------------------------------------------------------------ GroheAuth
TokenData(acc, ref, life) ==
  [access_token |-> acc, refresh_token |-> ref, expires_in |-> life]

\* variant: the refresh token is taken from the response even when absent
ApplyTokensClearRefresh(a, data, t) ==
  [accessToken  |-> data.access_token,
   refreshToken |-> data.refresh_token,
   expiresAt    |-> t + ((IF data.expires_in # 0 THEN data.expires_in
                          ELSE DefaultLifetime) - SafetyMarginS) * 1000]

\* _applyTokens(data) at time t
ApplyTokens(a, data, t) ==
  [accessToken  |-> data.access_token,
   refreshToken |-> IF data.refresh_token # 0 THEN data.refresh_token
                    ELSE a.refreshToken,
   expiresAt    |-> t + ((IF data.expires_in # 0 THEN data.expires_in
                          ELSE DefaultLifetime) - SafetyMarginS) * 1000]

\* getAccessToken: Date.now() >= this.expiresAt
TokenExpired(t, a) == t >= a.expiresAt

\* variant: getAccessToken returns the token it read before the refresh
GetAccessTokenReturnStale(a, before) == before

\* getAccessToken: return this.accessToken (after the awaited refresh);
\* before is the value the field had when getAccessToken was entered
GetAccessTokenReturn(a, before) == a.accessToken

\* login: if (attempt < 3) wait
LoginShouldWait(attempt) == attempt < LoginAttempts

\* variant: the same delay after every failed attempt
LoginWaitMsFixed(attempt) == LoginBackoffMs

\* login: setTimeout(r, attempt * 2000)
LoginWaitMs(attempt) == attempt * LoginBackoffMs

\* --------------------------------------------------------- GroheClient
\* setRefreshToken(token)
SetRefreshToken(S, token) == [S EXCEPT !.auth.refreshToken = token]

\* a JavaScript object: its properties in insertion order, << key, value >>
Keys(o) == { o[i][1] : i \in 1..Len(o) }
Get(o, k) == o[CHOOSE i \in 1..Len(o) : o[i][1] = k][2]

\* { ...a, ...b }: the properties of b are assigned onto a copy of a
RECURSIVE Spread(_, _)
Spread(a, b) ==
  IF b = << >> THEN a
  ELSE LET e == Head(b) IN
       Spread(IF e[1] \in Keys(a)
              THEN [i \in 1..Len(a) |-> IF a[i][1] = e[1] THEN e ELSE a[i]]
              ELSE Append(a, e),
              Tail(b))

\* variant: only the fields of the write are posted
MergeCommandReplace(data, commandFields) ==
  [data EXCEPT !.command = commandFields]

\* setApplianceCommand: merged.command = { ...(merged.command || {}),
\* ...commandFields }
MergeCommand(data, commandFields) ==
  [data EXCEPT !.command = Spread(data.command, commandFields)]

\* onStateChange, dispenseTrigger: Number(typeState?.val ?? 1) and
\* Number(amountState?.val ?? 250) when the two states were never written
DefaultTapType == 1
DefaultTapAmount == 250

\* setValve, startPressureMeasurement, tapWater, resetCo2, resetFilter: the
\* fields they write
CommandFields(tail) ==
  CASE tail = "controls.valveOpen" -> << << "valve_open", TRUE >> >>
    [] tail = "controls.valveClose" -> << << "valve_open", FALSE >> >>
    [] tail = "controls.startPressureMeasurement" -> << << "measure_now", TRUE >> >>
    [] tail = "controls.dispenseTrigger"
         -> << << "tap_type", DefaultTapType >>, << "tap_amount", DefaultTapAmount >> >>
    [] tail = "controls.resetCo2" -> << << "co2_status_reset", TRUE >> >>
    [] tail = "controls.resetFilter" -> << << "filter_status_reset", TRUE >> >>
\* variant: a 403 is treated like a 401
ShouldRetryForbidden(status, retry) == status \in {401, 403} /\ retry

\* request: err.response.status === 401 && retry
ShouldRetry(status, retry) == status = 401 /\ retry

\* ------------------------------------------------------------- adapter
Max(a, b) == IF a >= b THEN a ELSE b

\* Number(x) of a missing or non-numeric setting: NaN, kept apart from
\* every number a setting can hold
NaN == -1000000
\* settings: missing or not a number, negative, zero, below, at and above
\* the minimum
ConfiguredIntervals == {NaN, -5, 0, 10, 29, 30, 31, 45}

\* variant: no minimum
PollIntervalNoFloor(v) == IF v = NaN \/ v = 0 THEN DefaultPollInterval ELSE v

\* onReady: Math.max(30, Number(this.config.pollInterval) || 300)
PollInterval(v) ==
  Max(MinPollInterval, IF v = NaN \/ v = 0 THEN DefaultPollInterval ELSE v)

IdleCall == [pc |-> "idle", retry |-> TRUE, tok |-> 0, sentAt |-> 0,
             attempts |-> 0, after401 |-> 0, gatRenewals |-> 0, gatTok |-> 0]
NoData == [appliance_id |-> 0, command |-> << >>]
IdleTask == [step |-> "idle", todo |-> << >>, cur |-> 0, id |-> 0, called |-> {},
             fields |-> << >>, read |-> NoData, body |-> NoData]
IdleLogin == [pc |-> "idle", attempt |-> 0, wakeAt |-> 0, err |-> "none",
              raised |-> "none", starts |-> << >>, ends |-> << >>,
              waits |-> << >>]
NoTimer == [armed |-> FALSE, period |-> 0, due |-> 0]

\* one turn of the event loop: the response it handled (process p at step
\* step, HTTP status, answer to the first attempt or to the retry), the steps
\* whose client call threw and why, the requests sent, the levels logged
\* above info, pressure data written, a control state reset with ack, the
\* token responses handed to _applyTokens, the state change onStateChange
\* was called with
NoState == [exists |-> FALSE, val |-> "false", ack |-> FALSE]
NoEvent == [id |-> 0, tail |-> "", state |-> NoState]
NoTurn == [on |-> TRUE, p |-> -1, step |-> "none", status |-> 0, first |-> TRUE,
           threw |-> {}, reasons |-> {}, sent |-> 0, logged |-> {},
           wrote |-> FALSE, reset |-> FALSE, applied |-> << >>,
           event |-> NoEvent]

\* the errors request() can throw: an HTTP error status, or an error of
\* getAccessToken / refresh
HttpError(status) == [status |-> status, reason |-> "http"]
AuthError(name) == [status |-> 0, reason |-> name]

\* this.log.warn / this.log.error
Log(S, level) == [S EXCEPT !.turn.logged = @ \cup {level}]

\* a request leaves the process: API call, refresh POST or login attempt
Sent(S) == [S EXCEPT !.turn.sent = @ + 1]

\* the whole program state as one value, so that a handler is a function
St == [cfg |-> cfg, appliances |-> appliances, localStart |-> localStart, now |-> now, client |-> client,
       auth |-> auth, store |-> store, connection |-> connection,
       devices |-> devices, pollTimer |-> pollTimer, ready |-> ready,
       login |-> login, task |-> task, call |-> call, tokSeq |-> tokSeq,
       pollCounter |-> pollCounter, failures |-> failures,
       prevFailures |-> prevFailures, turn |-> NoTurn]

Becomes(S) ==
  /\ cfg' = S.cfg /\ appliances' = S.appliances /\ localStart' = S.localStart /\ now' = S.now
  /\ client' = S.client /\ auth' = S.auth /\ store' = S.store
  /\ connection' = S.connection /\ devices' = S.devices
  /\ pollTimer' = S.pollTimer /\ ready' = S.ready /\ login' = S.login
  /\ task' = S.task /\ call' = S.call /\ tokSeq' = S.tokSeq
  /\ pollCounter' = S.pollCounter /\ failures' = S.failures
  /\ prevFailures' = S.prevFailures
  /\ turn' = IF turn.on THEN S.turn ELSE turn
  /\ chain' = chain
  /\ tokenState' = tokenState
  /\ doLogin' = doLogin
  /\ writers' = writers

\* ------------------------------------------------ handlers, as functions
RECURSIVE Request(_, _, _), Resume(_, _, _), ProcessAppliances(_, _)

\* onReady, lines 96-101: setInterval(pollDevices, interval * 1000)
ArmTimer(S) ==
  LET ms == PollInterval(S.cfg.pollInterval) * 1000 IN
  [S EXCEPT !.pollTimer = [armed |-> TRUE, period |-> ms, due |-> S.now + ms],
            !.ready.pc = "done"]

\* pollDevices has returned; the initial cycle is awaited by onReady
PollFinished(S, p) ==
  LET S1 == [S EXCEPT !.task[p] = IdleTask] IN
  IF p = 1 THEN ArmTimer(S1) ELSE S1

\* pollDevices, try branch after getDashboard returned
PollSucceeded(S) ==
  [S EXCEPT !.connection = TRUE,
            !.prevFailures = S.failures,
            !.failures = 0]

\* variant: the catch branch doubles the timer period and nothing resets it
PollFailedBackoff(S) ==
  Log([S EXCEPT !.connection = FALSE,
                !.failures = S.failures + 1,
                !.pollTimer.period = @ * 2], "error")

\* pollDevices, catch branch
PollFailed(S) ==
  Log([S EXCEPT !.connection = FALSE,
                !.failures = S.failures + 1], "error")

\* GroheClient.request: this.http.request(config) with the bearer token
SendHttp(S, p, token) ==
  Sent([S EXCEPT !.call[p].pc = "http",
                 !.call[p].tok = token,
                 !.call[p].sentAt = S.now,
                 !.call[p].attempts = @ + 1])

\* an error leaves request(): the caller's catch or await continues
Throw(S, p, err) ==
  Resume([S EXCEPT !.call[p] = IdleCall,
                   !.turn.threw = @ \cup {S.task[p].step},
                   !.turn.reasons = @ \cup {err.reason}], p,
         [ok |-> FALSE, status |-> err.status, data |-> << >>])

\* request() returns the response
Return(S, p, data) ==
  Resume([S EXCEPT !.call[p] = IdleCall], p, [ok |-> TRUE, status |-> 200, data |-> data])

\* GroheClient.request(config, retry) up to its first network await:
\* getAccessToken, and refresh() inside it when the token has expired
Request(S, p, retry) ==
  LET c0 == IF retry THEN IdleCall
            ELSE [S.call[p] EXCEPT !.retry = FALSE, !.gatRenewals = 0, !.gatTok = 0]
      S0 == [S EXCEPT !.call[p] = c0]
  IN
  IF S.auth.accessToken = 0 THEN Throw(S0, p, AuthError("NotLoggedIn"))
  ELSE IF TokenExpired(S.now, S.auth)
       THEN IF S.auth.refreshToken = 0
            THEN Throw(S0, p, AuthError("NoRefreshToken"))
            ELSE Sent([S0 EXCEPT !.call[p].pc = "gat",
                                 !.call[p].tok = S.auth.accessToken,
                                 !.call[p].sentAt = S.now,
                                 !.call[p].gatRenewals = 1,
                                 !.call[p].after401 = IF retry THEN @ ELSE @ + 1])
  ELSE SendHttp(S0, p, S.auth.accessToken)

\* variant: the retry after a forced refresh re-sends the request as it was
RefreshGrantedResends(S, p, data) ==
  LET S1 == [S EXCEPT !.auth = ApplyTokens(S.auth, data, S.now),
                      !.tokSeq = S.tokSeq + 1,
                      !.turn.applied = Append(@, data)]
  IN
  IF S.call[p].pc = "gat"
  THEN SendHttp([S1 EXCEPT !.call[p].gatTok = data.access_token], p,
                GetAccessTokenReturn(S1.auth, S.call[p].tok))
  ELSE SendHttp([S1 EXCEPT !.call[p].retry = FALSE], p, S.call[p].tok)

\* the refresh POST of process p is answered with a token response
RefreshGranted(S, p, data) ==
  LET S1 == [S EXCEPT !.auth = ApplyTokens(S.auth, data, S.now),
                      !.tokSeq = S.tokSeq + 1,
                      !.turn.applied = Append(@, data)]
  IN
  IF S.call[p].pc = "gat"
  THEN SendHttp([S1 EXCEPT !.call[p].gatTok = data.access_token], p,
                GetAccessTokenReturn(S1.auth, S.call[p].tok))
  ELSE Request(S1, p, FALSE)

\* the API request of process p is answered with an error status
HttpFailed(S, p, status) ==
  IF ShouldRetry(status, S.call[p].retry)
  THEN IF S.auth.refreshToken = 0 THEN Throw(S, p, AuthError("NoRefreshToken"))
       ELSE Sent([S EXCEPT !.call[p].pc = "forced",
                           !.call[p].sentAt = S.now,
                           !.call[p].after401 = @ + 1])
  ELSE Throw(IF status = 403 THEN Log(S, "warn") ELSE S, p, HttpError(status))

\* _processAppliance / _updateSenseGuard: this.client.<call> for step st,
\* inside its try block; after onUnload this.client is null and the call is
\* a TypeError that the same catch block receives
StartStep(S, p, st) ==
  LET S1 == [S EXCEPT !.task[p].step = st] IN
  IF ~S.client
  THEN Resume([S1 EXCEPT !.turn.threw = @ \cup {st},
                         !.turn.reasons = @ \cup {"TypeError"}], p,
              [ok |-> FALSE, status |-> 0, data |-> << >>])
  ELSE Request([S1 EXCEPT !.task[p].called = @ \cup {st}], p, TRUE)

\* the catch blocks around getApplianceStatus and getApplianceCommand:
\* a debug line
SecondaryCatchMarksDown(S, p, res) ==
  [S EXCEPT !.connection = FALSE, !.failures = @ + 1]

SecondaryCatch(S, p, res) == S

\* variant: a missing pressure measurement is reported as a warning
PressureCatchWarn(S, status) ==
  IF status = 404 THEN Log(S, "warn") ELSE S

\* _updateSenseGuard, catch of the pressure read: a debug line for 404 and
\* a debug line for every other error
PressureCatch(S, status) ==
  IF status = 404 THEN S ELSE S

\* _updateSenseGuard, lines 305-341: the latest measurement is written when
\* the result list is not empty
PressureResult(S, res) ==
  IF res.ok
  THEN IF res.data # << >> THEN [S EXCEPT !.turn.wrote = TRUE] ELSE S
  ELSE PressureCatch(S, res.status)

\* onStateChange, catch: the error is logged, the state is left as written
CommandFailed(S, p) == Log([S EXCEPT !.task[p] = IdleTask], "error")

\* setApplianceCommand returns or throws.  Called by onStateChange, the
\* control state is then set to false with ack, or the catch block runs;
\* called directly, the caller has the result
CommandDone(S, p, ok) ==
  IF S.ready.pc = "client" THEN [S EXCEPT !.task[p] = IdleTask]
  ELSE IF ok THEN [S EXCEPT !.task[p] = IdleTask, !.turn.reset = TRUE]
  ELSE CommandFailed(S, p)

\* variant: no appliance is skipped
IsSkippedNever(a) == FALSE

\* pollDevices: appliance.registration_complete === false
IsSkipped(a) == a.registration_complete = FALSE

\* pollDevices: the loop over the appliances of the dashboard;
\* _processAppliance(locationId, roomId, appliance) up to its first request
ProcessAppliances(S, p) ==
  LET todo == S.task[p].todo IN
  IF todo = << >> THEN PollFinished(S, p)
  ELSE LET a == Head(todo)
           S1 == [S EXCEPT !.task[p].todo = Tail(todo)]
       IN
       IF IsSkipped(a) THEN ProcessAppliances(S1, p)
       ELSE StartStep([S1 EXCEPT !.devices = @ \cup {a.id},
                                 !.task[p].cur = a.type,
                                 !.task[p].id = a.id], p, "status")

\* the code after an awaited request() of process p, up to the next one
Resume(S, p, res) ==
  LET st == S.task[p].step IN
  CASE st = "dashboard" ->
         IF res.ok
         THEN ProcessAppliances([PollSucceeded(S) EXCEPT !.task[p].todo = res.data], p)
         ELSE PollFinished(PollFailed(S), p)
    [] st = "status" ->
         LET S1 == IF res.ok THEN S ELSE SecondaryCatch(S, p, res) IN
         IF S.task[p].cur = GROHE_SENSE_GUARD
         THEN StartStep(S1, p, "command")
         ELSE ProcessAppliances(S1, p)
    [] st = "command" ->
         StartStep(IF res.ok THEN S ELSE SecondaryCatch(S, p, res), p, "pressure")
    [] st = "pressure" -> ProcessAppliances(PressureResult(S, res), p)
    [] st = "get" ->
         IF res.ok
         THEN Request([S EXCEPT !.task[p].step = "post",
                                !.task[p].read = res.data,
                                !.task[p].body =
                                  MergeCommand(res.data, S.task[p].fields)],
                      p, TRUE)
         ELSE CommandDone(S, p, FALSE)
    [] st = "post" -> CommandDone(S, p, res.ok)
    [] st = "direct" -> [S EXCEPT !.task[p] = IdleTask]
    [] OTHER -> S

\* pollDevices() is invoked as cycle p
PollDevices(S, p) ==
  LET S1 == [S EXCEPT !.pollCounter = p] IN
  IF ~S.client THEN PollFinished(S1, p)
  ELSE Request([S1 EXCEPT !.task[p] = [IdleTask EXCEPT !.step = "dashboard"]], p, TRUE)

\* onReady, lines 91-94: connection true, initial poll
ReadyAuthenticated(S) ==
  PollDevices([S EXCEPT !.connection = TRUE, !.ready.pc = "poll"], 1)

\* onReady, catch branch
ReadyFailed(S) ==
  Log([S EXCEPT !.connection = FALSE, !.ready.pc = "failed"], "error")

\* login() returns the tokens / throws to its caller
LoginReturns(S, tokens) ==
  IF S.ready.pc = "login"
  THEN ReadyAuthenticated(
         [S EXCEPT !.login = IdleLogin,
                   !.store = PersistRefreshToken(S.store, tokens.refresh_token)])
  ELSE [S EXCEPT !.login.pc = "ok"]

LoginThrows(S, err) ==
  IF S.ready.pc = "login" THEN ReadyFailed([S EXCEPT !.login = IdleLogin])
  ELSE [S EXCEPT !.login.pc = "failed", !.login.raised = err]

LoginCallUnchecked(S, email, password) ==
  Sent([S EXCEPT !.login = [IdleLogin EXCEPT !.pc = "attempt",
                                             !.attempt = 1,
                                             !.starts = << S.now >>]])

\* GroheAuth.login(email, password) up to the first _doLogin await
LoginCall(S, email, password) ==
  IF email = "" \/ password = "" THEN LoginThrows(S, "InvalidInput")
  ELSE Sent([S EXCEPT !.login = [IdleLogin EXCEPT !.pc = "attempt",
                                                  !.attempt = 1,
                                                  !.starts = << S.now >>]])

ReadyLoginAlways(S) ==
  IF S.cfg.email = "" \/ S.cfg.password = "" THEN ReadyFailed(S)
  ELSE LoginCall([S EXCEPT !.ready.pc = "login"], S.cfg.email, S.cfg.password)

\* onReady, lines 81-89: full login if there is no access token
ReadyLogin(S) ==
  IF S.auth.accessToken # 0 THEN ReadyAuthenticated(S)
  ELSE IF S.cfg.email = "" \/ S.cfg.password = "" THEN ReadyFailed(S)
  ELSE LoginCall([S EXCEPT !.ready.pc = "login"], S.cfg.email, S.cfg.password)

\* variant: a failed attempt drops the tokens held
DoLoginFailedClears(S, err) ==
  LoginThrows([S EXCEPT !.auth = [accessToken |-> 0, refreshToken |-> 0,
                                 expiresAt |-> 0],
                        !.login.err = err,
                        !.login.ends = Append(@, S.now)], err)

\* login, catch block of one attempt (lines 70-76) and the throw after the loop
DoLoginFailed(S, err) ==
  LET l  == S.login
      S1 == Log([S EXCEPT !.login.err = err, !.login.ends = Append(@, S.now)],
                "warn")
  IN
  IF LoginShouldWait(l.attempt)
  THEN [S1 EXCEPT !.login.pc = "wait",
                  !.login.wakeAt = S.now + LoginWaitMs(l.attempt),
                  !.login.waits = Append(@, LoginWaitMs(l.attempt))]
  ELSE LoginThrows(S1, err)

\* _exchangeOndusUrl: tokens applied, login returns them
DoLoginSucceeded(S, data) ==
  LET S1 == [S EXCEPT !.auth = ApplyTokens(S.auth, data, S.now),
                      !.tokSeq = S.tokSeq + 1,
                      !.turn.applied = Append(@, data)]
  IN LoginReturns(S1, TokenData(S1.auth.accessToken, S1.auth.refreshToken,
                                data.expires_in))

\* onReady, lines 70-79: the refresh with the saved token succeeded / failed
\* (after onUnload this.client is null: reading this.client.refreshToken
\* throws inside the try, this.client.auth throws inside its catch, and the
\* outer catch of onReady ends the startup)
ReadyRefreshGranted(S, data) ==
  LET a == ApplyTokens(S.auth, data, S.now)
      S1 == [S EXCEPT !.auth = a, !.tokSeq = S.tokSeq + 1,
                      !.turn.applied = Append(@, data)]
  IN
  IF ~S.client THEN ReadyFailed(Log(S1, "warn"))
  ELSE ReadyLogin([S1 EXCEPT !.store = PersistRefreshToken(S.store, a.refreshToken)])

ReadyRefreshFailed(S) ==
  IF ~S.client THEN ReadyFailed(Log(S, "warn"))
  ELSE ReadyLogin(Log([S EXCEPT !.auth.accessToken = 0,
                                !.auth.refreshToken = 0], "warn"))

\* onReady, lines 40-71, up to the first network await
ReadyStart(S) ==
  LET saved == ReadRefreshToken(S.store)
      S1 == [S EXCEPT !.connection = FALSE,
                      !.client = TRUE,
                      !.store = StoreAfterRead(S.store)]
  IN
  IF saved # 0
  THEN Sent([SetRefreshToken(S1, saved)
               EXCEPT !.ready = [pc |-> "refresh", sentAt |-> S.now]])
  ELSE ReadyLogin(S1)

\* onUnload
OnUnload(S) ==
  [S EXCEPT !.pollTimer = IF S.pollTimer.armed THEN NoTimer ELSE @,
            !.client = FALSE]

\* onStateChange for an unacknowledged true on <id>.<tail>:
\* setValve / startPressureMeasurement -> setApplianceCommand -> GET command
StateChangeControl(S, id, tail) ==
  IF ~S.client THEN S
  ELSE IF id \notin S.devices THEN Log(S, "warn")
  ELSE Request([S EXCEPT !.task[CmdProc] =
                  [IdleTask EXCEPT !.step = "get",
                                   !.fields = CommandFields(tail)]],
               CmdProc, TRUE)

StateChangeValve(S, id) == StateChangeControl(S, id, "controls.valveOpen")

\* the control states onStateChange acts on, and a state it does not
SixControls == {"controls.valveOpen", "controls.valveClose",
                "controls.startPressureMeasurement",
                "controls.dispenseTrigger", "controls.resetCo2",
                "controls.resetFilter"}
EventTails == SixControls \cup {"controls.tapType"}
\* state.val: true, false, 0 and 1; if (state.val)
StateVals == {"true", "false", "zero", "one"}
Truthy(v) == v \in {"true", "one"}
\* the state object of the event: null, {val, ack: false}, or an
\* acknowledged true
EventStates ==
  {NoState, [exists |-> TRUE, val |-> "true", ack |-> TRUE]} \cup
  [exists : {TRUE}, val : StateVals, ack : {FALSE}]
\* appliance ids in the id of the state: the Sense Guard, and the Sense the
\* poll skips
EventIds == {Guard1.id, Sense2.id}

\* variant: the ack flag is not looked at
OnStateChangeIgnoresAck(S, id, tail, state) ==
  LET S1 == [S EXCEPT !.turn.event = [id |-> id, tail |-> tail, state |-> state]]
  IN
  IF ~state.exists \/ ~S.client THEN S1
  ELSE IF id \notin S.devices THEN Log(S1, "warn")
  ELSE IF tail \in SixControls /\ Truthy(state.val)
       THEN Request([S1 EXCEPT !.task[CmdProc] =
                       [IdleTask EXCEPT !.step = "get",
                                        !.fields = CommandFields(tail)]],
                    CmdProc, TRUE)
  ELSE S1

\* onStateChange(stateId, state) for stateId <namespace>.<id>.<tail>
OnStateChange(S, id, tail, state) ==
  LET S1 == [S EXCEPT !.turn.event = [id |-> id, tail |-> tail, state |-> state]]
  IN
  IF ~state.exists \/ state.ack \/ ~S.client THEN S1
  ELSE IF id \notin S.devices THEN Log(S1, "warn")
  ELSE IF tail \in SixControls /\ Truthy(state.val)
       THEN Request([S1 EXCEPT !.task[CmdProc] =
                       [IdleTask EXCEPT !.step = "get",
                                        !.fields = CommandFields(tail)]],
                    CmdProc, TRUE)
  ELSE S1

\* ------------------------------------------------- token state as text
\* characters of a token, and the longest token of the model
TokenChars == {"t", " "}
MaxTextLen == 3
TokenTexts == UNION { [1..k -> TokenChars] : k \in 0..MaxTextLen }

\* String.prototype.trim
RECURSIVE TrimStart(_), TrimEnd(_)
TrimStart(s) == IF s # << >> /\ Head(s) = " " THEN TrimStart(Tail(s)) ELSE s
TrimEnd(s) ==
  IF s # << >> /\ s[Len(s)] = " " THEN TrimEnd(SubSeq(s, 1, Len(s) - 1)) ELSE s
Trim(s) == TrimEnd(TrimStart(s))

\* this.encrypt / this.decrypt on text: a bijection whose output has no
\* whitespace
EncryptText(s) == [i \in 1..Len(s) |-> IF s[i] = "t" THEN "B" ELSE "A"]
DecryptText(s) == [i \in 1..Len(s) |-> IF s[i] = "B" THEN "t" ELSE " "]

\* the prefix 'enc:' of a stored value, one element of the text
EncMarker == "enc:"
HasMarker(raw) == raw # << >> /\ Head(raw) = EncMarker

\* variant: the token is saved as given, without trim
PersistTextUntrimmed(val, newToken) ==
  IF newToken = << >> THEN [val |-> val, wrote |-> FALSE]
  ELSE [val |-> << EncMarker >> \o EncryptText(newToken), wrote |-> TRUE]

\* _persistRefreshToken(newToken) on a state holding val
PersistText(val, newToken) ==
  LET nt == Trim(newToken)
      e  == << EncMarker >> \o EncryptText(nt)
  IN
  IF nt = << >> THEN [val |-> val, wrote |-> FALSE]
  ELSE IF val = e THEN [val |-> val, wrote |-> FALSE]
  ELSE [val |-> e, wrote |-> TRUE]

\* _readRefreshToken() on a state holding val
ReadText(val) ==
  LET raw == Trim(val) IN
  IF raw = << >> THEN [got |-> << >>, val |-> val, wrote |-> FALSE]
  ELSE IF HasMarker(raw)
       THEN [got |-> DecryptText(Tail(raw)), val |-> val, wrote |-> FALSE]
       ELSE LET p == PersistText(val, raw) IN
            [got |-> raw, val |-> p.val, wrote |-> p.wrote]

\* values the state can hold at start: nothing, a legacy token, or a value
\* saved by _persistRefreshToken
StoredTexts ==
  TokenTexts \cup
  { << EncMarker >> \o EncryptText(t) :
      t \in {u \in TokenTexts : u # << >> /\ Trim(u) = u} }

IdleTokenState == [val |-> << >>, op |-> "none", saved |-> << >>,
                   got |-> << >>, wrote |-> FALSE]

\* ----------------------------------------------------------- cookie jar
\* for (let i = 0; i < 20; i++) in _getWithJar
RedirectLimit == 20
\* redirects followed in the model
MaxHops == 3

\* host of LOGIN_URL, a second host of the provider, and the domain a
\* Set-Cookie header of either may name in its Domain attribute
LoginHost == "idp2-apigw.cloud.grohe.com"
Hosts == {LoginHost, "login.cloud.grohe.com"}
ParentDomain == "cloud.grohe.com"
CookieNames == {"a", "b"}
CookieValues == {1, 2}

\* one Set-Cookie header: name=value, with or without Domain=<ParentDomain>
SetCookies == [name : CookieNames, value : CookieValues,
               domain : {"", ParentDomain}]
\* the set-cookie headers of one response: one header, or the same cookie
\* set twice
HopHeaders ==
  { << c >> : c \in SetCookies } \cup
  { << c, [c EXCEPT !.value = v] >> : c \in SetCookies, v \in CookieValues }

\* tough-cookie: a cookie without a Domain attribute belongs to the host of
\* the request (host-only), one with the attribute to that domain
CookieDomain(sc, host) == IF sc.domain = "" THEN host ELSE sc.domain
\* the hosts a cookie of the domain is sent to
DomainMatches(domain) == IF domain = ParentDomain THEN Hosts \cup {domain}
                         ELSE {domain}

\* new tough.CookieJar(): cookies keyed by domain and name; 0 is absent
JarKeys == (Hosts \cup {ParentDomain}) \X CookieNames
EmptyJar == [k \in JarKeys |-> 0]

SetCookieSyncKeepFirst(jar, sc, host) ==
  LET k == << CookieDomain(sc, host), sc.name >> IN
  IF jar[k] # 0 THEN jar ELSE [jar EXCEPT ![k] = sc.value]

\* jar.setCookieSync(sc, requestUrl, {ignoreError: true})
SetCookieSync(jar, sc, host) ==
  [jar EXCEPT ![<< CookieDomain(sc, host), sc.name >>] = sc.value]

\* _storeCookiesFromResponse(resp, requestUrl, jar)
RECURSIVE StoreCookiesFromResponse(_, _, _)
StoreCookiesFromResponse(jar, headers, host) ==
  IF headers = << >> THEN jar
  ELSE StoreCookiesFromResponse(SetCookieSync(jar, Head(headers), host),
                                Tail(headers), host)

\* jar.getCookieStringSync(url): the name=value pairs of the cookies that
\* match the host of url
GetCookieStringSync(jar, host) ==
  { << k[2], jar[k] >> :
      k \in {j \in JarKeys : jar[j] # 0 /\ host \in DomainMatches(j[1])} }

\* history: the value a response set last, per cookie and per name
RECURSIVE SetLast(_, _, _)
SetLast(h, headers, host) ==
  IF headers = << >> THEN h
  ELSE LET sc == Head(headers) IN
       SetLast([latest |-> [h.latest EXCEPT
                              ![<< CookieDomain(sc, host), sc.name >>] = sc.value],
                seen |-> [h.seen EXCEPT ![sc.name] = sc.value]],
               Tail(headers), host)

IdleChain == [pc |-> "idle", i |-> 0, host |-> "", jar |-> EmptyJar,
              action |-> "", header |-> {},
              latest |-> EmptyJar, seen |-> [n \in CookieNames |-> 0]]

\* ------------------------------------------- login, request by request
\* for (let i = 0; i < 15; i++) in _followRedirects
FollowLimit == 15

\* LOGIN_URL and the addresses a redirect of the provider names
LoginUrl == "login"
Urls == {"u1", "u2"}
\* a Location header that starts with ondus://
Ondus == "ondus"

\* the failure markers of _checkHtmlErrors, one per kind of markup
Markers == {"invalid", "expired", "sorry"}
\* resp.data: the empty string, a parsed object ("json", not a string), the
\* login page with its form, markup without a form, markup with a marker
Bodies == {"", "json", "form", "noform"} \cup Markers

\* status 0: the call returned no response (timeout, network error)
NoResponse == [status |-> 0, location |-> "", data |-> ""]
\* answers to a GET of the login-page chain (validateStatus: () => true)
PageResps ==
  {NoResponse} \cup
  [status : {200, 302, 400}, location : {""} \cup Urls, data : Bodies]
\* answers to the credential POST
PostResps ==
  {NoResponse} \cup
  [status : {200, 302, 400}, location : {"", "u1", Ondus}, data : Bodies]
\* answers to a GET of _followRedirects; the body is not looked at
FollowResps ==
  {NoResponse} \cup
  [status : {200, 302, 400}, location : {"", "u1", Ondus}, data : {""}]
\* answers to the token exchange: expires_in 0 is a missing field
ExchangeResps ==
  { [status |-> st, data |-> TokenData(acc, ref, 0)] :
      st \in {0, 200, 400}, acc \in {0, 1}, ref \in {0, 2} }
\* answers to the refresh POST
RenewResps ==
  { [status |-> st, data |-> TokenData(acc, 0, 0)] :
      st \in {0, 200, 400, 401, 404, 500}, acc \in {0, 1} }

\* resp.status >= 300 && resp.status < 400 && resp.headers?.location
IsRedirect(r) == r.status >= 300 /\ r.status < 400 /\ r.location # ""

\* the Error each marker makes _checkHtmlErrors throw
MarkerError(m) ==
  CASE m = "invalid" -> "InvalidCredentials"
    [] m = "expired" -> "SessionExpired"
    [] m = "sorry" -> "ProviderError"

\* _checkHtmlErrors(html): the error it throws, "none" when it returns
CheckHtmlErrors(html) ==
  IF html \in Markers THEN MarkerError(html) ELSE "none"

NoRenew == [impl |-> "none", pc |-> "idle", err |-> "none", sent |-> 0,
            status |-> 0]
IdleDoLogin ==
  [pc |-> "idle", attempt |-> 0, i |-> 0, url |-> "", err |-> "none",
   raised |-> "none", body |-> "", finalUrl |-> "",
   gets |-> 0, posts |-> 0, follows |-> 0, exchanges |-> 0, redirects |-> 0,
   op |-> "none", resp |-> NoResponse, asked |-> "", renew |-> NoRenew]

\* _doLogin(email, password) is entered: _getWithJar sends the GET of hop 0
\* (lastError of the attempt before is overwritten before login reads it)
StartAttempt(D) ==
  [D EXCEPT !.pc = "get", !.attempt = @ + 1, !.i = 0, !.url = LoginUrl,
            !.err = "none", !.body = "", !.finalUrl = "", !.asked = "",
            !.gets = 1, !.posts = 0, !.follows = 0, !.exchanges = 0,
            !.redirects = 0]

\* variant: the loop of login makes one attempt more
AttemptFailedOneMore(D, err) ==
  IF D.attempt < LoginAttempts + 1
  THEN [D EXCEPT !.pc = "wait", !.err = err]
  ELSE [D EXCEPT !.pc = "failed", !.err = err, !.raised = err]

\* login, catch branch: _doLogin threw err in attempt D.attempt
AttemptFailed(D, err) ==
  IF D.attempt < LoginAttempts
  THEN [D EXCEPT !.pc = "wait", !.err = err]
  ELSE [D EXCEPT !.pc = "failed", !.err = err, !.raised = err]

\* _exchangeOndusUrl(ondusUrl) sends its GET
SendExchange(D) == [D EXCEPT !.pc = "exchange", !.exchanges = @ + 1]

\* _followRedirects(url, baseUrl, jar) sends the GET of iteration 0
SendFollow(D) == [D EXCEPT !.pc = "follow", !.i = 0, !.follows = @ + 1]

\* variant: the form is posted without scanning the page
PageFetchedUnscanned(D, body, finalUrl) ==
  LET D1 == [D EXCEPT !.body = body, !.finalUrl = finalUrl, !.url = ""] IN
  IF body = "" THEN AttemptFailed(D1, "EmptyResponse")
  ELSE IF body = "noform" THEN AttemptFailed(D1, "FormNotFound")
  ELSE [D1 EXCEPT !.pc = "post", !.posts = @ + 1]

\* _doLogin, lines 94-147: _getWithJar returned {body, finalUrl}
PageFetched(D, body, finalUrl) ==
  LET D1 == [D EXCEPT !.body = body, !.finalUrl = finalUrl, !.url = ""] IN
  IF body = "" THEN AttemptFailed(D1, "EmptyResponse")
  ELSE IF CheckHtmlErrors(body) # "none"
       THEN AttemptFailed(D1, CheckHtmlErrors(body))
  ELSE IF body = "noform" THEN AttemptFailed(D1, "FormNotFound")
  ELSE [D1 EXCEPT !.pc = "post", !.posts = @ + 1]

\* variant: the redirect of the last iteration is followed as well
GetWithJarAnsweredFollowsLast(D, r) ==
  IF r.status = 0 THEN AttemptFailed(D, "Transport")
  ELSE IF IsRedirect(r)
       THEN [D EXCEPT !.i = @ + 1, !.url = r.location, !.gets = @ + 1,
                      !.redirects = @ + 1]
  ELSE PageFetched(D, IF r.data = "json" THEN "" ELSE r.data, D.url)

\* _getWithJar: the GET of iteration D.i is answered
GetWithJarAnswered(D, r) ==
  IF r.status = 0 THEN AttemptFailed(D, "Transport")
  ELSE IF IsRedirect(r)
       THEN IF D.i + 1 < RedirectLimit
            THEN [D EXCEPT !.i = @ + 1, !.url = r.location, !.gets = @ + 1,
                           !.redirects = @ + 1]
            ELSE AttemptFailed([D EXCEPT !.i = @ + 1, !.url = r.location,
                                         !.redirects = @ + 1],
                               "TooManyRedirects")
  ELSE PageFetched(D, IF r.data = "json" THEN "" ELSE r.data, D.url)

\* _doLogin, lines 136-188: the credential POST is answered
PostAnswered(D, r) ==
  IF r.status = 0 THEN AttemptFailed(D, "Transport")
  ELSE IF r.status = 200 /\ r.data # "json"
       THEN IF CheckHtmlErrors(r.data) # "none"
            THEN AttemptFailed(D, CheckHtmlErrors(r.data))
            ELSE AttemptFailed(D, "LoginFormAgain")
  ELSE IF r.location = Ondus THEN SendExchange(D)
  ELSE IF r.location # "" THEN SendFollow(D)
  ELSE AttemptFailed(D, "NoRedirect")

\* _followRedirects: the GET of iteration D.i is answered
FollowAnswered(D, r) ==
  IF r.status = 0 THEN AttemptFailed(D, "Transport")
  ELSE IF r.location = Ondus THEN SendExchange(D)
  ELSE IF r.location # "" /\ r.status >= 300 /\ r.status < 400
       THEN IF D.i + 1 < FollowLimit
            THEN [D EXCEPT !.i = @ + 1, !.follows = @ + 1]
            ELSE AttemptFailed([D EXCEPT !.i = @ + 1],
                               "TooManyRedirectsAfterLogin")
  ELSE AttemptFailed(D, "RedirectChainFailed")

\* _exchangeOndusUrl: the error it throws for answer r, "none" when the
\* tokens are applied (axios rejects every status outside 200-299)
ExchangeError(r) ==
  IF r.status # 200 THEN "Transport"
  ELSE IF r.data.access_token = 0 \/ r.data.refresh_token = 0
       THEN "TokenResponseInvalid"
  ELSE "none"

\* the GET of _exchangeOndusUrl is answered
ExchangeAnswered(D, r) ==
  IF ExchangeError(r) # "none" THEN AttemptFailed(D, ExchangeError(r))
  ELSE [D EXCEPT !.pc = "ok"]

\* GroheAuth.refresh: the error it throws when the POST is answered by r,
\* "none" when the tokens are applied. An error of the POST itself leaves
\* refresh() as axios raised it.
RefreshError(r) ==
  IF r.status # 200 THEN "TransportError"
  ELSE IF r.data.access_token = 0 THEN "NoAccessToken"
  ELSE "none"

\* the error refresh() of implementation impl throws before any request:
\* GroheAuth.refresh without a refresh token, GroheApi.refresh without a
\* refresh token or without a token endpoint derived from it
RefreshRefused(impl, refreshToken, endpoint) ==
  IF impl = "auth"
  THEN IF refreshToken = 0 THEN "NoRefreshToken" ELSE "none"
  ELSE IF refreshToken = 0 THEN "NO_REFRESH_TOKEN"
       ELSE IF ~endpoint THEN "NO_TOKEN_ENDPOINT" ELSE "none"

\* GroheApi.refresh (lib/api.js, required by no module): the code of the
\* error it throws when its POST is answered by r
ApiRefreshError(r) ==
  IF r.status \in {400, 401} THEN "INVALID_REFRESH_TOKEN"
  ELSE IF r.status # 200 \/ r.data.access_token = 0
       THEN "TOKEN_REFRESH_FAILED"
  ELSE "none"

\* ------------------------------------------- overlapping command writes
\* the setApplianceCommand calls in progress at the same time
Writers == {1, 2}
\* the control states written, and the command object the cloud holds for
\* the appliance before the writes (valve closed, no measurement)
WriteTails == {"controls.valveOpen", "controls.valveClose",
               "controls.startPressureMeasurement"}
ServerCommand ==
  [appliance_id |-> 1,
   command |-> << << "valve_open", FALSE >>, << "measure_now", FALSE >> >>]

IdleWriter == [pc |-> "idle", fields |-> << >>, read |-> NoData,
               body |-> NoData]
IdleWriters == [server |-> ServerCommand, w |-> [x \in Writers |-> IdleWriter],
                order |-> << >>]

\* setApplianceCommand, line 128: the GET of the current command is sent
CommandGetSent(R, x, fields) ==
  [R EXCEPT !.w[x] = [IdleWriter EXCEPT !.pc = "get", !.fields = fields]]

\* setApplianceCommand, lines 129-131: the GET returned the cloud's command,
\* the fields are merged into it and the result is posted
CommandMerged(R, x) ==
  [R EXCEPT !.w[x].pc = "post",
            !.w[x].read = R.server,
            !.w[x].body = MergeCommand(R.server, R.w[x].fields)]

\* the cloud stores the body of the POST; setApplianceCommand returns
CommandPosted(R, x) ==
  [R EXCEPT !.server = R.w[x].body,
            !.w[x].pc = "done",
            !.order = Append(@, x)]

\* request() threw in the GET or the POST
CommandThrew(R, x) == [R EXCEPT !.w[x].pc = "failed"]

\* ----------------------------------------------------------------- Init
NoAuth == [accessToken |-> 0, refreshToken |-> 0, expiresAt |-> 0]

InitCommon ==
  /\ chain = IdleChain
  /\ doLogin = IdleDoLogin
  /\ writers = IdleWriters
  /\ tokenState \in {IdleTokenState}
  /\ now = 0
  /\ client = FALSE
  /\ auth = NoAuth
  /\ connection = FALSE
  /\ devices = {}
  /\ pollTimer = NoTimer
  /\ login = IdleLogin
  /\ task = [p \in Procs |-> IdleTask]
  /\ call = [p \in Procs |-> IdleCall]
  /\ tokSeq = 0
  /\ pollCounter = 0
  /\ failures = 0
  /\ prevFailures = 0

Init ==
  /\ InitCommon
  /\ cfg \in { [email |-> e, password |-> e, pollInterval |-> i] :
               e \in {"", "user"}, i \in PollIntervals }
  /\ localStart \in LocalStarts
  /\ PollInterval(cfg.pollInterval) * 1000 <= MaxTicks * HttpTimeoutMs
       => localStart = 36000000
  /\ store \in StoredValues
  /\ ready = [pc |-> "init", sentAt |-> 0]
  /\ appliances = <<Sense2, Guard1>>
  /\ turn = [NoTurn EXCEPT !.on = FALSE]

\* the adapter with a poll interval beyond the clock's range, and a user
\* who operates the valve
InitCmd ==
  /\ InitCommon
  /\ cfg = [email |-> "user", password |-> "user", pollInterval |-> 0]
  /\ localStart = 36000000
  /\ store \in StoredValues
  /\ ready = [pc |-> "init", sentAt |-> 0]
  /\ appliances = <<Sense2, Guard1>>
  /\ turn = [NoTurn EXCEPT !.on = FALSE]

\* GroheAuth.login called on its own
InitLogin ==
  /\ InitCommon
  /\ cfg \in { [email |-> e, password |-> pw, pollInterval |-> 0] :
               e \in {"", "user"}, pw \in {"", "secret"} }
  /\ localStart = 36000000
  /\ store = EmptyStore
  /\ ready = [pc |-> "standalone", sentAt |-> 0]
  /\ appliances = << >>
  /\ turn = [NoTurn EXCEPT !.on = FALSE]

\* GroheAuth._doLogin up to the credential POST
InitJar ==
  /\ InitCommon
  /\ cfg = [email |-> "user", password |-> "secret", pollInterval |-> 0]
  /\ localStart = 36000000
  /\ store = EmptyStore
  /\ ready = [pc |-> "standalone", sentAt |-> 0]
  /\ appliances = << >>
  /\ turn = [NoTurn EXCEPT !.on = FALSE]

\* the state auth.refreshToken with any stored value
InitStore ==
  /\ chain = IdleChain
  /\ doLogin = IdleDoLogin
  /\ writers = IdleWriters
  /\ tokenState \in { [IdleTokenState EXCEPT !.val = v] : v \in StoredTexts }
  /\ now = 0 /\ client = FALSE /\ auth = NoAuth /\ connection = FALSE
  /\ devices = {} /\ pollTimer = NoTimer /\ login = IdleLogin
  /\ task = [p \in Procs |-> IdleTask] /\ call = [p \in Procs |-> IdleCall]
  /\ tokSeq = 0 /\ pollCounter = 0 /\ failures = 0 /\ prevFailures = 0
  /\ cfg = [email |-> "user", password |-> "secret", pollInterval |-> 0]
  /\ localStart = 36000000
  /\ store = EmptyStore
  /\ ready = [pc |-> "standalone", sentAt |-> 0]
  /\ appliances = << >>
  /\ turn = [NoTurn EXCEPT !.on = FALSE]

\* the adapter of an account without appliances, with any setting of the
\* poll interval
InitInterval ==
  /\ InitCommon
  /\ cfg \in { [email |-> "user", password |-> "user", pollInterval |-> i] :
               i \in ConfiguredIntervals }
  /\ localStart = 36000000
  /\ store = [enc |-> TRUE, val |-> Encrypt(1)]
  /\ ready = [pc |-> "init", sentAt |-> 0]
  /\ appliances = << >>
  /\ turn = [NoTurn EXCEPT !.on = FALSE]

\* the adapter polling, every turn recorded
InitTurn ==
  /\ InitCommon
  /\ cfg = [email |-> "user", password |-> "user", pollInterval |-> 45]
  /\ localStart = 36000000
  /\ store = [enc |-> TRUE, val |-> Encrypt(1)]
  /\ ready = [pc |-> "init", sentAt |-> 0]
  /\ appliances \in Dashboards
  /\ turn = NoTurn

\* the adapter of an account without appliances
InitEmpty ==
  /\ InitTurn
  /\ appliances = << >>

\* the adapter polling until it is stopped
InitUnload ==
  /\ InitTurn
  /\ appliances = <<Sense2, Guard1>>

\* the adapter with a user who operates the controls, every turn recorded
InitWrite ==
  /\ InitCommon
  /\ cfg = [email |-> "user", password |-> "user", pollInterval |-> 0]
  /\ localStart = 36000000
  /\ store = [enc |-> TRUE, val |-> Encrypt(1)]
  /\ ready = [pc |-> "init", sentAt |-> 0]
  /\ appliances = <<Sense2, Guard1>>
  /\ turn = NoTurn

\* GroheClient used on its own: login, setRefreshToken, requests
InitClient ==
  /\ InitCommon
  /\ cfg = [email |-> "user", password |-> "secret", pollInterval |-> 0]
  /\ localStart = 36000000
  /\ store = EmptyStore
  /\ ready = [pc |-> "client", sentAt |-> 0]
  /\ appliances = << >>
  /\ turn = NoTurn

\* --------------------------------------------------------------- actions
\* the adapter's ready event
OnReady ==
  /\ ready.pc = "init"
  /\ Becomes(ReadyStart(St))

\* the refresh POST sent by onReady is answered
ReadyRefreshResponds ==
  /\ ready.pc = "refresh"
  /\ \/ /\ tokSeq < MaxTok
        /\ \E life \in Lifetimes, rot \in BOOLEAN :
             Becomes(ReadyRefreshGranted(St,
               TokenData(tokSeq + 1, IF rot THEN tokSeq + 2 ELSE 0, life)))
     \/ Becomes(ReadyRefreshFailed(St))

\* one _doLogin attempt ends
DoLoginResponds ==
  /\ login.pc = "attempt"
  /\ \/ /\ tokSeq < MaxTok
        /\ \E life \in Lifetimes :
             Becomes(DoLoginSucceeded(St, TokenData(tokSeq + 1, tokSeq + 2, life)))
     \/ \E e \in LoginErrors : Becomes(DoLoginFailed(St, e))

\* the backoff timer of login fires: next attempt
LoginWake ==
  /\ login.pc = "wait"
  /\ now >= login.wakeAt
  /\ login' = [login EXCEPT !.pc = "attempt", !.attempt = @ + 1,
                            !.starts = Append(@, now)]
  /\ turn' = IF turn.on THEN [NoTurn EXCEPT !.sent = 1] ELSE turn
  /\ UNCHANGED << cfg, appliances, localStart, now, client, auth, store, connection,
                  devices, pollTimer, ready, task, call, tokSeq, pollCounter,
                  failures, prevFailures, chain, tokenState, doLogin,
                  writers >>

\* the setInterval timer fires: pollDevices()
TimerFire ==
  /\ pollTimer.armed
  /\ now >= pollTimer.due
  /\ pollCounter < MaxCycles
  /\ Becomes(PollDevices([St EXCEPT !.pollTimer.due = @ + pollTimer.period],
                         pollCounter + 1))

\* the data of a 200 response to the request of step st
ResponseData(st) ==
  CASE st = "dashboard" -> { appliances }
    [] st = "pressure" -> PressureResults
    [] st = "get" -> CommandReads
    [] OTHER -> { << >> }

\* the turn that handles the response (HTTP status, 0 for a refresh
\* response) to the request of process p
Handled(p, status) ==
  [St EXCEPT !.turn.p = p, !.turn.step = task[p].step,
             !.turn.status = status, !.turn.first = call[p].retry]

\* the API request of process p is answered
HttpResponds(p) ==
  /\ call[p].pc = "http"
  /\ \E status \in Statuses :
       IF status = 200
       THEN \E d \in ResponseData(task[p].step) :
              Becomes(Return(Handled(p, 200), p, d))
       ELSE Becomes(HttpFailed(Handled(p, status), p, status))

\* the refresh POST of process p is answered
RefreshResponds(p) ==
  /\ call[p].pc \in {"gat", "forced"}
  /\ \/ /\ tokSeq < MaxTok
        /\ \E life \in Lifetimes, rot \in BOOLEAN :
             Becomes(RefreshGranted(Handled(p, 0), p,
               TokenData(tokSeq + 1, IF rot THEN tokSeq + 2 ELSE 0, life)))
     \/ \E e \in RefreshErrors : Becomes(Throw(Handled(p, 0), p, AuthError(e)))

\* a user writes true to a control state of appliance id
StateChange ==
  /\ task[CmdProc].step = "idle"
  /\ \E id \in {Guard1.id}, tail \in Controls :
       /\ id \in devices
       /\ client
       /\ Becomes(StateChangeControl(St, id, tail))

\* onStateChange is called with any state change of the adapter's
\* namespace, while no request of a poll cycle is in flight
StateChangeEvent ==
  /\ task[CmdProc].step = "idle"
  /\ \A p \in PollProcs : call[p].pc = "idle"
  /\ \E id \in EventIds, tail \in EventTails, state \in EventStates :
       Becomes(OnStateChange(St, id, tail, state))

\* the adapter is stopped
Unload ==
  /\ ready.pc \in {"refresh", "login", "poll", "done", "failed"}
  /\ client
  /\ Becomes(OnUnload(St))

\* a caller of GroheClient adopts a saved refresh token
ClientSetRefreshToken ==
  /\ ready.pc = "client"
  /\ login.pc \in {"idle", "ok", "failed"}
  /\ task[CmdProc].step = "idle"
  /\ \E t \in AdoptedTokens :
       Becomes([SetRefreshToken(St, t) EXCEPT !.task[CmdProc].step = "adopted"])

\* a caller of GroheClient makes a request (getDashboard)
ClientRequest ==
  /\ ready.pc = "client"
  /\ login.pc \in {"idle", "ok", "failed"}
  /\ task[CmdProc].step \in {"idle", "adopted"}
  /\ Becomes(Request([St EXCEPT !.task[CmdProc] =
                        [IdleTask EXCEPT !.step = "direct"]], CmdProc, TRUE))

\* the clock advances by one step; no request stays unanswered past its
\* timeout and a due timer fires first
Tick ==
  /\ now < MaxTicks * HttpTimeoutMs
  /\ \A p \in Procs : call[p].pc # "idle" => call[p].sentAt >= now
  /\ ready.pc = "refresh" => ready.sentAt >= now
  /\ login.pc = "attempt" => login.starts[Len(login.starts)] >= now
  /\ ~(pollTimer.armed /\ pollTimer.due <= now)
  /\ now' = now + HttpTimeoutMs
  /\ turn' = IF turn.on THEN NoTurn ELSE turn
  /\ UNCHANGED << cfg, appliances, localStart, client, auth, store, connection, devices,
                  pollTimer, ready, login, task, call, tokSeq, pollCounter,
                  failures, prevFailures, chain, tokenState, doLogin,
                  writers >>

\* login(email, password) is called
LoginStart ==
  /\ ready.pc \in {"standalone", "client"}
  /\ task[CmdProc].step = "idle"
  /\ login.pc = "idle"
  /\ Becomes(LoginCall(St, cfg.email, cfg.password))

\* a caller of GroheClient writes a command (setValve,
\* startPressureMeasurement)
ClientCommand ==
  /\ ready.pc = "client"
  /\ login.pc \in {"idle", "ok", "failed"}
  /\ task[CmdProc].step = "idle"
  /\ \E tail \in Controls :
       Becomes(Request([St EXCEPT !.task[CmdProc] =
                          [IdleTask EXCEPT !.step = "get",
                                           !.fields = CommandFields(tail)]],
                       CmdProc, TRUE))

\* one second passes while login runs
LoginTick ==
  /\ login.pc \in {"attempt", "wait"}
  /\ now < MaxLoginTicks * 1000
  /\ now' = now + 1000
  /\ turn' = IF turn.on THEN NoTurn ELSE turn
  /\ UNCHANGED << cfg, appliances, localStart, client, auth, store, connection, devices,
                  pollTimer, ready, login, task, call, tokSeq, pollCounter,
                  failures, prevFailures, chain, tokenState, doLogin,
                  writers >>

\* _doLogin starts: a fresh jar, GET of LOGIN_URL
DoLoginGet ==
  /\ chain.pc = "idle"
  /\ chain' = [IdleChain EXCEPT !.pc = "get", !.host = LoginHost]
  /\ UNCHANGED adapterVars

\* _getWithJar: the GET of hop i is answered, with set-cookie headers and
\* either a redirect to a host or the login page
GetWithJarResponds ==
  /\ chain.pc = "get"
  /\ chain.i < RedirectLimit
  /\ chain.i < MaxHops
  /\ \E headers \in HopHeaders, next \in Hosts \cup {"html"} :
       LET h == SetLast([latest |-> chain.latest, seen |-> chain.seen],
                        headers, chain.host)
       IN
       chain' = [chain EXCEPT
                   !.jar = StoreCookiesFromResponse(@, headers, chain.host),
                   !.latest = h.latest,
                   !.seen = h.seen,
                   !.pc = IF next = "html" THEN "form" ELSE "get",
                   !.host = IF next = "html" THEN @ ELSE next,
                   !.i = IF next = "html" THEN @ ELSE @ + 1]
  /\ UNCHANGED adapterVars

\* _doLogin, steps 2-3: the form's action URL is parsed and the credentials
\* are posted with the jar's cookies for that URL
PostCredentials ==
  /\ chain.pc = "form"
  /\ \E a \in Hosts :
       chain' = [chain EXCEPT !.pc = "posted", !.action = a,
                              !.header = GetCookieStringSync(chain.jar, a)]
  /\ UNCHANGED adapterVars

\* _persistRefreshToken(t) is called
PersistRefreshTokenCalled ==
  /\ \E t \in TokenTexts :
       LET p == PersistText(tokenState.val, t) IN
       tokenState' = [val |-> p.val, op |-> "save", saved |-> t,
                      got |-> << >>, wrote |-> p.wrote]
  /\ UNCHANGED << coreVars, chain, doLogin, writers >>

\* _readRefreshToken() is called
ReadRefreshTokenCalled ==
  /\ LET r == ReadText(tokenState.val) IN
     tokenState' = [tokenState EXCEPT !.val = r.val, !.op = "read",
                                      !.got = r.got, !.wrote = r.wrote]
  /\ UNCHANGED << coreVars, chain, doLogin, writers >>

NextStore ==
  \/ PersistRefreshTokenCalled
  \/ ReadRefreshTokenCalled

SpecStore == InitStore /\ [][NextStore]_vars

NextJar ==
  \/ DoLoginGet
  \/ GetWithJarResponds
  \/ PostCredentials

SpecJar == InitJar /\ [][NextJar]_vars

\* login(email, password) is called with both set: attempt 1 starts
LoginEntered ==
  /\ doLogin.pc = "idle"
  /\ doLogin.renew.pc = "idle"
  /\ cfg.email # "" /\ cfg.password # ""
  /\ doLogin' = StartAttempt(doLogin)
  /\ UNCHANGED << auth, sessionFrame >>

\* a GET of the login-page chain returns or times out
GetWithJarReturns ==
  /\ doLogin.pc = "get"
  /\ \E r \in PageResps :
       doLogin' = [GetWithJarAnswered(doLogin, r) EXCEPT
                     !.op = "get", !.resp = r, !.asked = doLogin.url]
  /\ UNCHANGED << auth, sessionFrame >>

\* the credential POST returns or times out
PostReturns ==
  /\ doLogin.pc = "post"
  /\ \E r \in PostResps :
       doLogin' = [PostAnswered(doLogin, r) EXCEPT !.op = "post", !.resp = r]
  /\ UNCHANGED << auth, sessionFrame >>

\* a GET of _followRedirects returns or times out
FollowReturns ==
  /\ doLogin.pc = "follow"
  /\ \E r \in FollowResps :
       doLogin' = [FollowAnswered(doLogin, r) EXCEPT
                     !.op = "follow", !.resp = r]
  /\ UNCHANGED << auth, sessionFrame >>

\* the token exchange returns or times out; _applyTokens on success
ExchangeReturns ==
  /\ doLogin.pc = "exchange"
  /\ \E r \in ExchangeResps :
       /\ doLogin' = [ExchangeAnswered(doLogin, r) EXCEPT
                        !.op = "exchange",
                        !.resp = [NoResponse EXCEPT !.status = r.status]]
       /\ auth' = IF ExchangeError(r) = "none"
                  THEN ApplyTokens(auth, r.data, now) ELSE auth
  /\ UNCHANGED sessionFrame

\* the setTimeout between two attempts fires: the next attempt starts
BackoffEnds ==
  /\ doLogin.pc = "wait"
  /\ doLogin' = [StartAttempt(doLogin) EXCEPT !.op = "none",
                                              !.resp = NoResponse]
  /\ UNCHANGED << auth, sessionFrame >>

\* setRefreshToken(token) on a session without tokens
RefreshTokenAdopted ==
  /\ doLogin.pc = "idle"
  /\ doLogin.renew.pc = "idle"
  /\ auth.refreshToken = 0
  /\ \E t \in AdoptedTokens : auth' = [auth EXCEPT !.refreshToken = t]
  /\ UNCHANGED << doLogin, sessionFrame >>

\* refresh() is called (GroheAuth.refresh, or GroheApi.refresh holding the
\* same token, with or without a token endpoint): it throws at once or
\* sends its POST
RenewCalled ==
  /\ doLogin.pc = "idle"
  /\ doLogin.renew.pc = "idle"
  /\ \E impl \in {"auth", "api"}, endpoint \in BOOLEAN :
       LET err == RefreshRefused(impl, auth.refreshToken, endpoint) IN
       doLogin' = [doLogin EXCEPT !.renew =
         IF err # "none"
         THEN [NoRenew EXCEPT !.impl = impl, !.pc = "failed", !.err = err]
         ELSE [NoRenew EXCEPT !.impl = impl, !.pc = "sent", !.sent = 1]]
  /\ UNCHANGED << auth, sessionFrame >>

\* the refresh POST returns or times out
RenewReturns ==
  /\ doLogin.renew.pc = "sent"
  /\ \E r \in RenewResps :
       LET err == IF doLogin.renew.impl = "auth" THEN RefreshError(r)
                  ELSE ApiRefreshError(r)
       IN
       /\ doLogin' = [doLogin EXCEPT
                        !.renew.pc = IF err = "none" THEN "done" ELSE "failed",
                        !.renew.err = err,
                        !.renew.status = r.status]
       /\ auth' = IF err = "none" /\ doLogin.renew.impl = "auth"
                  THEN ApplyTokens(auth, r.data, now) ELSE auth
  /\ UNCHANGED sessionFrame

LoginProgress ==
  \/ GetWithJarReturns
  \/ PostReturns
  \/ FollowReturns
  \/ ExchangeReturns
  \/ BackoffEnds

NextAuth ==
  \/ LoginEntered
  \/ GetWithJarReturns
  \/ PostReturns
  \/ FollowReturns
  \/ ExchangeReturns
  \/ BackoffEnds
  \/ RefreshTokenAdopted
  \/ RenewCalled
  \/ RenewReturns

\* GroheAuth on its own: login and refresh, every request answered by the
\* provider in any way
SpecAuth == InitJar /\ [][NextAuth]_vars

\* the same when every HTTP call returns or times out and every timer fires
SpecAuthFair == SpecAuth /\ WF_vars(LoginProgress)

\* a control state of the appliance is written while fewer than two writes
\* are in progress: setApplianceCommand is called
CommandCalled ==
  /\ \E x \in Writers, tail \in WriteTails :
       /\ writers.w[x].pc = "idle"
       /\ writers' = CommandGetSent(writers, x, CommandFields(tail))
  /\ UNCHANGED << coreVars, chain, tokenState, doLogin >>

\* the GET of a write is answered
CommandGetResponds ==
  /\ \E x \in Writers :
       /\ writers.w[x].pc = "get"
       /\ \/ writers' = CommandMerged(writers, x)
          \/ writers' = CommandThrew(writers, x)
  /\ UNCHANGED << coreVars, chain, tokenState, doLogin >>

\* the POST of a write is answered
CommandPostResponds ==
  /\ \E x \in Writers :
       /\ writers.w[x].pc = "post"
       /\ \/ writers' = CommandPosted(writers, x)
          \/ writers' = CommandThrew(writers, x)
  /\ UNCHANGED << coreVars, chain, tokenState, doLogin >>

NextWriters ==
  \/ CommandCalled
  \/ CommandGetResponds
  \/ CommandPostResponds

\* two users of one appliance: each write is a setApplianceCommand call
SpecWriters == InitJar /\ [][NextWriters]_vars

NextControl ==
  \/ OnReady
  \/ ReadyRefreshResponds
  \/ DoLoginResponds
  \/ \E p \in Procs : HttpResponds(p)
  \/ \E p \in Procs : RefreshResponds(p)
  \/ StateChangeEvent
  \/ Unload

\* the adapter from startup to shutdown with every state change delivered
\* to onStateChange, every turn recorded
SpecControl == InitWrite /\ [][NextControl]_vars

Next ==
  \/ OnReady
  \/ ReadyRefreshResponds
  \/ DoLoginResponds
  \/ LoginWake
  \/ TimerFire
  \/ \E p \in Procs : HttpResponds(p)
  \/ \E p \in Procs : RefreshResponds(p)
  \/ Tick

Spec == Init /\ [][Next]_vars

NextCmd ==
  \/ OnReady
  \/ ReadyRefreshResponds
  \/ DoLoginResponds
  \/ LoginWake
  \/ \E p \in Procs : HttpResponds(p)
  \/ \E p \in Procs : RefreshResponds(p)
  \/ StateChange
  \/ Tick

SpecCmd == InitCmd /\ [][NextCmd]_vars

NextLogin ==
  \/ LoginStart
  \/ DoLoginResponds
  \/ LoginWake
  \/ LoginTick

SpecLogin == InitLogin /\ [][NextLogin]_vars

NextUnload ==
  \/ OnReady
  \/ ReadyRefreshResponds
  \/ DoLoginResponds
  \/ LoginWake
  \/ TimerFire
  \/ \E p \in Procs : HttpResponds(p)
  \/ \E p \in Procs : RefreshResponds(p)
  \/ Unload
  \/ Tick

SpecUnload == InitUnload /\ [][NextUnload]_vars

SpecTurn == InitTurn /\ [][Next]_vars

SpecInterval == InitInterval /\ [][Next]_vars

\* the adapter when the event loop runs every pending callback: a response
\* that has arrived is handled, a due timer fires, time passes
SpecTurnFair == InitEmpty /\ [][Next]_vars /\ WF_vars(Next)

SpecWrite == InitWrite /\ [][NextCmd]_vars

\* the same when the event loop never stops while a callback is pending
SpecWriteFair == SpecWrite /\ WF_vars(NextCmd)

NextClient ==
  \/ LoginStart
  \/ DoLoginResponds
  \/ LoginWake
  \/ ClientSetRefreshToken
  \/ ClientRequest
  \/ ClientCommand
  \/ HttpResponds(CmdProc)
  \/ RefreshResponds(CmdProc)
  \/ Tick

SpecClient == InitClient /\ [][NextClient]_vars

\* ---------------------------------------------------------------- claims
RECURSIVE Pow2(_)
Pow2(n) == IF n = 0 THEN 1 ELSE 2 * Pow2(n - 1)

\* the configured interval in ms: the configured number when it is at least
\* 30, 30 when it is below, 300 when it is missing
ConfiguredMs ==
  1000 * (IF cfg.pollInterval = 0 THEN 300
          ELSE IF cfg.pollInterval < 30 THEN 30 ELSE cfg.pollInterval)

RenewalsInFlight == { p \in Procs : call[p].pc \in {"gat", "forced"} }
CyclesInProgress == { p \in PollProcs : task[p].step # "idle" }

\* C1: a request whose first attempt is answered 401 performs exactly one
\* renewal and one retry after it: never a third attempt, never a second
\* renewal, and the retry is sent after exactly one renewal.
C1_OneRenewalOneRetry ==
  \A p \in Procs :
    /\ call[p].attempts <= 2
    /\ call[p].after401 <= 1
    /\ (call[p].pc = "http" /\ ~call[p].retry)
         => (call[p].attempts = 2 /\ call[p].after401 = 1)

\* C2: when getAccessToken finds the token expired and the renewal succeeds,
\* it performs one refresh and the token it returns (the one attached to the
\* request) is the access token of that refresh response.
C2_ExpiredTokenRenewedOnce ==
  \A p \in Procs :
    (call[p].pc = "http" /\ call[p].gatRenewals >= 1)
      => (call[p].gatRenewals = 1 /\ call[p].gatTok # 0
          /\ call[p].tok = call[p].gatTok)

C2_Witness ==
  \E p \in Procs :
    /\ call[p].pc = "http" /\ call[p].gatRenewals = 1
    /\ call[p].tok = call[p].gatTok /\ call[p].tok = auth.accessToken
    /\ now > 0

\* C3: once startup has stored the token, the stored state auth.refreshToken
\* always decrypts to the session's current refresh token.
C3_StoreHoldsCurrentToken ==
  (ready.pc \in {"poll", "done"} /\ auth.refreshToken # 0)
    => (store.enc /\ Decrypt(store.val) = auth.refreshToken)

\* C4: at most one execution of pollDevices is in progress.
C4_NoOverlappingCycles == Cardinality(CyclesInProgress) <= 1

\* C5: at most one refresh request is in flight.
C5_OneRenewalInFlight == Cardinality(RenewalsInFlight) <= 1

\* C6: a login with non-empty email and password that fails has made exactly
\* three attempts, waited 2000 ms after the first and 4000 ms after the
\* second failure (each next attempt starts no earlier), did not wait after
\* the third and raises the error of the third attempt; a login that
\* succeeded at attempt k made k attempts, and a finished login makes no
\* further attempt.
C6_LoginState ==
  /\ login.pc = "failed" /\ cfg.email # "" /\ cfg.password # ""
       => /\ Len(login.starts) = 3 /\ Len(login.ends) = 3
          /\ login.waits = << 2000, 4000 >>
          /\ login.raised = login.err
          /\ now = login.ends[3]
  /\ login.pc = "ok"
       => Len(login.starts) = login.attempt /\ Len(login.ends) = login.attempt - 1
  /\ \A k \in 1..Len(login.starts) - 1 :
       login.starts[k + 1] >= login.ends[k] + k * 2000

C6_LoginStep ==
  /\ login.pc \in {"ok", "failed"} => login' = login
  /\ Len(login'.starts) <= 3

C6_LoginRetries == [][C6_LoginStep]_vars /\ []C6_LoginState

C6_Witness ==
  /\ login.pc = "failed" /\ Len(login.ends) = 3
  /\ login.starts[3] >= login.ends[2] + 4000
  /\ login.err # "none"

\* C7: the status call is made only on cycles that are multiples of 5, the
\* command read only on multiples of 3, the pressure-measurement read only
\* on multiples of 10.
C7_TieredPolling ==
  \A p \in PollProcs :
    /\ "status" \in task[p].called => p % 5 = 0
    /\ "command" \in task[p].called => p % 3 = 0
    /\ "pressure" \in task[p].called => p % 10 = 0

\* C8: after n consecutive failed cycles the timer delay is the configured
\* interval times 2^n while that is below 3600 s, and never above 3600 s.
C8_ExponentialBackoff ==
  pollTimer.armed =>
    /\ ConfiguredMs * Pow2(failures) < 3600 * 1000
         => pollTimer.period = ConfiguredMs * Pow2(failures)
    /\ pollTimer.period <= 3600 * 1000

\* C9: when the configured interval times 2^failures reaches 3600 s after a
\* failed cycle, the next cycle is due at a local noon or midnight.
C9_QuietUntilNoonOrMidnight ==
  (pollTimer.armed /\ failures >= 1
     /\ ConfiguredMs * Pow2(failures) >= 3600 * 1000)
    => (localStart + pollTimer.due) % (12 * 3600 * 1000) = 0

\* C10: after a successful dashboard call that followed N >= 1 consecutive
\* failed cycles, the count of consecutive failures is 0 and the timer delay
\* is the configured interval.
C10_SuccessResets ==
  (prevFailures >= 1 /\ connection /\ pollTimer.armed)
    => (failures = 0 /\ pollTimer.period = ConfiguredMs)

C10_Witness ==
  /\ prevFailures >= 1 /\ connection /\ pollTimer.armed
  /\ failures = 0 /\ pollCounter >= 2

\* onUnload has run
Unloaded ==
  ~client /\ ready.pc \in {"refresh", "login", "poll", "done", "failed"}

\* C11: once onUnload has run, no turn of the adapter sends a request (API
\* call, refresh POST or login attempt) and no poll timer is armed.
C11_NoRequestAfterUnload ==
  [][Unloaded => (turn'.sent = 0 /\ ~pollTimer'.armed)]_vars

\* C12: setRefreshToken sends no request, installs the token and clears the
\* cached access token, and the request that follows it starts with a
\* renewal (also when no login has happened).
C12_AdoptForcesRenewal ==
  [][/\ (task'[CmdProc].step = "adopted" /\ task[CmdProc].step # "adopted")
          => /\ turn'.sent = 0
             /\ auth'.refreshToken \in AdoptedTokens
             /\ auth'.accessToken = 0
     /\ (task[CmdProc].step = "adopted" /\ task'[CmdProc].step # "adopted")
          => call'[CmdProc].pc = "gat"]_vars

\* C13: when a poll cycle ends, info.connection is true if the dashboard
\* call of that cycle succeeded and false if it failed.
C13_ConnectionReflectsDashboard ==
  [][\A p \in PollProcs :
       (task[p].step # "idle" /\ task'[p].step = "idle")
         => connection' = (IF task[p].step = "dashboard"
                           THEN failures' = 0 ELSE TRUE)]_vars

SecondarySteps == {"status", "command", "pressure"}

\* the turn taken handled the answer to the request of process p, made for
\* step task[p].step, and that client call threw
CallFailed(p) ==
  /\ turn'.p = p /\ turn'.step = task[p].step
  /\ turn'.status # 200 /\ turn'.step \in turn'.threw

\* the appliances of todo that pollDevices does not skip
RECURSIVE Registered(_)
Registered(todo) ==
  IF todo = << >> THEN << >>
  ELSE IF Head(todo).registration_complete = FALSE THEN Registered(Tail(todo))
  ELSE << Head(todo) >> \o Registered(Tail(todo))

\* C14: a failed status, command or pressure call leaves info.connection,
\* the failure count and the timer as they were (the initial cycle arms the
\* timer with the configured interval when it ends), and the cycle goes on:
\* to the next call for the same appliance, else to the next registered
\* appliance, and it ends only when none remains.
C14_SecondaryFailureContained ==
  [][\A p \in PollProcs :
       (CallFailed(p) /\ task[p].step \in SecondarySteps)
         => /\ connection' = connection
            /\ failures' = failures /\ prevFailures' = prevFailures
            /\ \/ pollTimer' = pollTimer
               \/ /\ p = 1 /\ task'[p].step = "idle" /\ ~pollTimer.armed
                  /\ pollTimer'.period = ConfiguredMs
            /\ LET st == task[p].step
                   rest == Registered(task[p].todo)
               IN
               IF st = "status" /\ task[p].cur = GROHE_SENSE_GUARD
               THEN task'[p].step = "command"
               ELSE IF st = "command" THEN task'[p].step = "pressure"
               ELSE IF rest = << >> THEN task'[p].step = "idle"
               ELSE /\ task'[p].step = "status"
                    /\ task'[p].cur = rest[1].type
                    /\ rest[1].id \in devices']_vars

C14_Witness ==
  /\ turn.p \in PollProcs
  /\ turn.step = "pressure" /\ "pressure" \in turn.threw /\ turn.status = 403
  /\ task[turn.p].step = "status" /\ task[turn.p].cur = GROHE_SENSE
  /\ connection /\ failures = 0

\* C15: a 404 answer to the pressure read writes no pressure data and logs
\* nothing at warn or error level, which is the result of an empty list,
\* and changes neither the failure count nor info.connection.
C15_MissingPressureIsSilent ==
  [][\A p \in PollProcs :
       (turn'.p = p /\ task[p].step = "pressure" /\ turn'.step = "pressure")
         => /\ turn'.status = 404
                 => /\ ~turn'.wrote /\ turn'.logged = {}
                    /\ failures' = failures /\ connection' = connection
            /\ (turn'.status = 200 /\ ~turn'.wrote)
                 => /\ turn'.logged = {}
                    /\ failures' = failures /\ connection' = connection]_vars

C15_Witness ==
  /\ turn.p \in PollProcs
  /\ turn.step = "pressure" /\ turn.status = 404
  /\ ~turn.wrote /\ turn.logged = {} /\ connection

\* C16: a 403 answer is thrown to the caller of request(): no token is
\* renewed, no refresh is started and the call is not sent again, on the
\* first attempt and on the retry that followed a 401.
C16_ForbiddenNotRetried ==
  [][\A p \in Procs :
       (turn'.p = p /\ turn'.status = 403)
         => /\ turn'.step \in turn'.threw /\ "http" \in turn'.reasons
            /\ auth' = auth /\ tokSeq' = tokSeq
            /\ call'[p].pc # "forced"
            /\ call'[p].retry /\ call'[p].attempts <= 1]_vars

C16_Witness ==
  /\ turn.status = 403 /\ ~turn.first
  /\ turn.step \in turn.threw /\ "http" \in turn.reasons

\* C17: the command object posted by a command write holds exactly the
\* fields of the command object read and the fields of the write, each
\* once; a field of the write has the written value, every other field the
\* value that was read.
C17_MergePreservesFields ==
  \A p \in Procs :
    task[p].step = "post"
      => LET r == task[p].read.command
             f == task[p].fields
             b == task[p].body.command
         IN
         /\ Keys(b) = Keys(r) \cup Keys(f)
         /\ Len(b) = Cardinality(Keys(b))
         /\ \A k \in Keys(b) :
              Get(b, k) = IF k \in Keys(f) THEN Get(f, k) ELSE Get(r, k)
         /\ task[p].body.appliance_id = task[p].read.appliance_id

C17_Witness ==
  /\ task[CmdProc].step = "post" /\ call[CmdProc].pc = "http"
  /\ Keys(task[CmdProc].read.command) = {"valve_open", "measure_now"}
  /\ task[CmdProc].fields = << << "valve_open", TRUE >> >>
  /\ Get(task[CmdProc].body.command, "valve_open") = TRUE
  /\ Get(task[CmdProc].body.command, "measure_now") = FALSE

\* onReady decides between renewal and login: the step that reads the stored
\* token, and the step that handles the answer to the renewal
StartupDecides == ready.pc \in {"init", "refresh"} /\ ready' # ready
\* no refresh token is stored, or the provider did not grant the renewal
NoSession ==
  \/ ready.pc = "init" /\ ReadRefreshToken(store) = 0
  \/ ready.pc = "refresh" /\ tokSeq' = tokSeq
LoginIssued == login.pc = "idle" /\ login'.pc = "attempt"
CredentialsConfigured == cfg.email # "" /\ cfg.password # ""
\* the step that starts the first poll leaves the session's refresh token
\* in the store
StoredBeforeFirstPoll ==
  (ready.pc # "poll" /\ ready'.pc = "poll")
    => /\ auth'.refreshToken # 0
       /\ store'.enc
       /\ Decrypt(store'.val) = auth'.refreshToken

\* C18 as stated: at startup a login request is issued if and only if no
\* refresh token is stored or the renewal with the stored token failed; the
\* session's refresh token is stored before the first poll.
C18_LoginIffNoSession ==
  [][ /\ StartupDecides => (LoginIssued <=> NoSession)
      /\ StoredBeforeFirstPoll ]_vars

\* C18: at startup a login request is issued if and only if identity and
\* secret are configured and no refresh token is stored or the renewal with
\* the stored token failed (without them the startup ends with no login
\* request); after a granted renewal no login request is issued, and the
\* session's refresh token is stored before the first poll.
C18_LoginIffNoSessionAndCredentials ==
  [][ /\ StartupDecides
           => (LoginIssued <=> (NoSession /\ CredentialsConfigured))
      /\ (StartupDecides /\ NoSession /\ ~CredentialsConfigured)
           => ready'.pc = "failed"
      /\ StoredBeforeFirstPoll ]_vars

C18_Witness ==
  /\ ready.pc = "login" /\ login.pc = "attempt"
  /\ store.val # 0 /\ auth.refreshToken = 0

\* the turn that ended a poll cycle in pollDevices' catch because the
\* provider rejected the renewal or no credential was held
SessionLost ==
  /\ turn.step = "dashboard" /\ "dashboard" \in turn.threw
  /\ turn.reasons \cap {"rejected", "NoRefreshToken", "NotLoggedIn"} # {}

\* the interval timer will start a further cycle within the clock's range
LaterCycleDue == pollTimer.armed /\ pollTimer.due <= MaxTicks * HttpTimeoutMs

WriteReceived == task[CmdProc].step = "get"

\* C20: every unacknowledged write of true to a control state of a known
\* appliance is eventually followed by the adapter setting the state back to
\* false with ack.
C20_ButtonReset == WriteReceived ~> turn.reset

\* the turn in which the POST of a command write was answered with success
\* and onStateChange finished
CommandSucceeded == task[CmdProc].step = "post" /\ turn'.reset

\* C21: the turn that completes a command successfully issues a request
\* that reads the appliance's command state back.
C21_ReadbackAfterCommand == [][CommandSucceeded => turn'.sent > 0]_vars

\* login(email, password) is called with an empty email or password
EmptyLoginCalled ==
  /\ login.pc = "idle" /\ login' # login
  /\ (cfg.email = "" \/ cfg.password = "")

\* C22: login called with an empty email or an empty password throws at
\* once: no attempt is started (no request), no backoff wait is scheduled,
\* no time passes and the tokens and their expiry are unchanged.
C22_EmptyLoginStep ==
  EmptyLoginCalled
    => /\ login'.pc = "failed" /\ login'.raised = "InvalidInput"
       /\ login'.attempt = 0
       /\ login'.starts = << >> /\ login'.ends = << >> /\ login'.waits = << >>
       /\ auth' = auth /\ tokSeq' = tokSeq /\ now' = now

C22_EmptyLoginState ==
  (cfg.email = "" \/ cfg.password = "")
    => /\ login.pc \notin {"attempt", "wait"}
       /\ login.attempt = 0 /\ login.starts = << >> /\ login.waits = << >>

C22_EmptyLoginFailsAtOnce == [][C22_EmptyLoginStep]_vars /\ []C22_EmptyLoginState

C22_Witness ==
  /\ cfg.email = "user" /\ cfg.password = ""
  /\ login.pc = "failed" /\ login.raised = "InvalidInput"

TokensApplied == Len(turn.applied) = 1
AppliedData == turn.applied[1]

\* C24: when a token response is applied the expiry instant is
\* now + (lifetime - 60) seconds for the lifetime the response carries,
\* 0 and values below 60 included.
C24_ExpiryFromLifetime ==
  TokensApplied
    => auth.expiresAt = now + (AppliedData.expires_in - SafetyMarginS) * 1000

\* the step applies the token response of a renewal (not of a login)
RenewalApplied == Len(turn'.applied) = 1 /\ login.pc # "attempt"

\* C25: a granted renewal replaces the access token and the expiry; it
\* replaces the refresh token by the one the response carries, and leaves
\* it as it was when the response carries none.
C25_RenewalKeepsRefreshToken ==
  [][ RenewalApplied
        => LET d == turn'.applied[1] IN
           /\ auth'.accessToken = d.access_token
           /\ auth'.refreshToken = IF d.refresh_token = 0 THEN auth.refreshToken
                                   ELSE d.refresh_token
           /\ auth'.expiresAt \in
                { now' + (life - SafetyMarginS) * 1000 :
                    life \in {d.expires_in, DefaultLifetime} } ]_vars

C25_Witness ==
  /\ TokensApplied /\ AppliedData.refresh_token = 0
  /\ tokSeq = 2 /\ login.pc = "idle" /\ ready.pc # "login"
  /\ auth.refreshToken # 0
  /\ auth.accessToken = AppliedData.access_token

\* _readRefreshToken is called on a non-empty value without the marker /
\* on a value with the marker / right after _persistRefreshToken(t)
ReadCalled == tokenState'.op = "read"
LegacyStored == Trim(tokenState.val) # << >> /\ ~HasMarker(Trim(tokenState.val))
MarkedStored == HasMarker(tokenState.val)
JustSaved == tokenState.op = "save"

\* C26 as stated: reading a value without the marker returns it unchanged
\* and leaves a marked value; for every non-empty token t, saving t and
\* then reading returns t; reading a marked value does not write.
C26_RoundTrip ==
  [][ ReadCalled
        => /\ LegacyStored
                => /\ tokenState'.got = tokenState.val
                   /\ HasMarker(tokenState'.val)
           /\ (JustSaved /\ tokenState.saved # << >>)
                => tokenState'.got = tokenState.saved
           /\ MarkedStored
                => ~tokenState'.wrote /\ tokenState'.val = tokenState.val ]_vars

\* C26: reading a value without the marker returns it without surrounding
\* whitespace and leaves that token stored with the marker; for every token
\* t that is not only whitespace, saving t and then reading returns t
\* without surrounding whitespace (t itself when it has none); reading a
\* marked value does not write.
C26_RoundTripTrimmed ==
  [][ ReadCalled
        => /\ LegacyStored
                => /\ tokenState'.got = Trim(tokenState.val)
                   /\ HasMarker(tokenState'.val)
                   /\ DecryptText(Tail(tokenState'.val)) = tokenState'.got
           /\ (JustSaved /\ Trim(tokenState.saved) # << >>)
                => tokenState'.got = Trim(tokenState.saved)
           /\ MarkedStored
                => ~tokenState'.wrote /\ tokenState'.val = tokenState.val ]_vars

C26_Witness ==
  /\ tokenState.op = "read"
  /\ tokenState.got = << "t", " ", "t" >>
  /\ tokenState.wrote
  /\ HasMarker(tokenState.val)

\* the interval the settings documentation describes, in seconds
DocumentedInterval ==
  LET v == cfg.pollInterval IN
  IF v = NaN \/ v = 0 THEN 300
  ELSE IF v < 30 THEN 30
  ELSE v

\* C27: the period of the poll timer is never below 30 seconds: the
\* configured number when it is at least 30, 30 when it is below 30, and 300
\* when the setting is missing, zero or not a number.
C27_IntervalFloorAndFallback ==
  pollTimer.armed
    => /\ pollTimer.period >= 30 * 1000
       /\ pollTimer.period = DocumentedInterval * 1000

C27_Witness ==
  /\ pollTimer.armed /\ pollCounter >= 2
  /\ cfg.pollInterval = -5
  /\ pollTimer.period = 30000

\* the appliances of the dashboard with registration_complete false
Unregistered ==
  { appliances[i] : i \in {j \in 1..Len(appliances) :
                             appliances[j].registration_complete = FALSE} }

\* C28: an appliance whose dashboard entry has registration_complete false
\* is never in the device registry, and no cycle processes it: no status,
\* command or pressure request is made for it and nothing is written for it.
C28_UnregisteredSkipped ==
  \A a \in Unregistered :
    /\ a.id \notin devices
    /\ \A p \in Procs : task[p].id # a.id

C28_Witness ==
  /\ Len(appliances) = 3 /\ appliances[1] = Sense2
  /\ devices = {Guard1.id, Sense3.id}
  /\ \E p \in PollProcs : task[p].id = Sense3.id /\ task[p].step = "status"

\* the step in which a renewal fails (no refresh token held, the POST
\* fails or is rejected, the answer lacks the access token), and the step
\* in which a login attempt fails
RenewalFailed ==
  turn'.reasons \cap (RefreshErrors \cup {"NoRefreshToken"}) # {}
LoginAttemptFailed ==
  login.pc = "attempt" /\ Len(login'.ends) = Len(login.ends) + 1

\* C29: a failed login attempt and a failed renewal leave the access
\* token, the refresh token and the expiry instant as they were.
C29_FailureKeepsSession ==
  [][(RenewalFailed \/ LoginAttemptFailed) => auth' = auth]_vars

C29_Witness ==
  /\ "rejected" \in turn.reasons
  /\ auth.accessToken # 0 /\ auth.refreshToken # 0
  /\ login.pc = "ok"

\* the step in which request() of process p got a token from
\* getAccessToken and sent the API request with it
RequestSent(p) ==
  /\ call'[p].pc = "http"
  /\ call'[p].attempts = call[p].attempts + 1

\* C30: the token getAccessToken returns, and request() attaches, has not
\* reached its expiry instant at that moment.
C30_NoExpiredTokenAttached ==
  [][ \A p \in Procs :
        (RequestSent(p) /\ call'[p].tok = auth'.accessToken)
          => ~TokenExpired(now', auth') ]_vars

\* the credential POST has just been answered
PostJustAnswered == doLogin.op = "post"

\* C31: after the credential POST only an answer with status 300-399 and a
\* Location header continues (to the redirect chain or the token exchange);
\* an answer with any status outside 300-399 ends the attempt with an error.
C31_PostStatusDecides ==
  PostJustAnswered
    => /\ doLogin.pc \in {"follow", "exchange"} => IsRedirect(doLogin.resp)
       /\ ~(doLogin.resp.status >= 300 /\ doLogin.resp.status < 400)
            => doLogin.pc \in {"wait", "failed"}

\* a GET of the login-page chain has just been answered
PageJustAnswered == doLogin.op = "get"
\* the answer was the last of the chain: a response that is no redirect
PageFinal ==
  PageJustAnswered /\ doLogin.resp.status # 0 /\ ~IsRedirect(doLogin.resp)
\* the attempt has just ended with error e
AttemptEndedWith(e) == doLogin.pc \in {"wait", "failed"} /\ doLogin.err = e
\* the body a response carries as text
BodyText(r) == IF r.data = "json" THEN "" ELSE r.data

\* C32 as stated: the page fetch fails with TooManyRedirects only when more
\* than 20 redirects were received, and a final response is returned with
\* its body and address.
C32_TwentyRedirectsFollowed ==
  /\ (PageJustAnswered /\ AttemptEndedWith("TooManyRedirects"))
       => doLogin.redirects > RedirectLimit
  /\ PageFinal => /\ doLogin.body = BodyText(doLogin.resp)
                  /\ doLogin.finalUrl = doLogin.asked

\* C32: the page fetch sends at most 20 GETs: it fails with
\* TooManyRedirects exactly when the 20th GET is answered by a redirect (so
\* at most 19 redirects are followed), and a final response within the 20
\* GETs is returned with its body and the address it was asked from.
C32_TwentyRequestsSent ==
  /\ doLogin.gets <= RedirectLimit
  /\ PageJustAnswered
       => (AttemptEndedWith("TooManyRedirects")
             <=> (IsRedirect(doLogin.resp) /\ doLogin.redirects = RedirectLimit))
  /\ PageFinal => /\ doLogin.body = BodyText(doLogin.resp)
                  /\ doLogin.finalUrl = doLogin.asked

\* the 20th GET of the chain, sent after 19 redirects, returned the login
\* page from the address of the last redirect and the form was posted
C32_Witness ==
  /\ PageFinal /\ doLogin.redirects = RedirectLimit - 1
  /\ doLogin.gets = RedirectLimit
  /\ doLogin.finalUrl \in Urls /\ doLogin.pc = "post"

RenewErrorOf(impl, r) ==
  IF impl = "auth" THEN RefreshError(r) ELSE ApiRefreshError(r)

\* C34: refresh() without a refresh token fails with the no-credential error
\* and sends nothing; the error of a renewal the provider rejected (400,
\* 401) is the error of no other failed renewal.
C34_RenewalOutcomesDistinct ==
  LET n == doLogin.renew IN
  n.pc = "failed"
    => /\ auth.refreshToken = 0
            => n.sent = 0 /\ n.err \in {"NoRefreshToken", "NO_REFRESH_TOKEN"}
       /\ (n.sent = 1 /\ n.status \in {400, 401})
            => \A r \in RenewResps :
                 r.status \notin {400, 401} => RenewErrorOf(n.impl, r) # n.err

\* the requests of one attempt stay within the limits of the loops
AttemptWithinLimits ==
  /\ doLogin.attempt <= LoginAttempts
  /\ doLogin.gets <= RedirectLimit
  /\ doLogin.posts <= 1
  /\ doLogin.follows <= FollowLimit
  /\ doLogin.exchanges <= 1

\* C39: login makes at most 3 attempts, each with at most 20 login-page
\* GETs, one credential POST, 15 GETs of the redirect chain and one token
\* exchange, and once called it returns or throws.
C39_LoginTerminates ==
  /\ []AttemptWithinLimits
  /\ (doLogin.pc # "idle") ~> (doLogin.pc \in {"ok", "failed"})

\* the third attempt used every request the loops allow and login returned
C39_Witness ==
  /\ doLogin.pc = "ok" /\ doLogin.attempt = LoginAttempts
  /\ doLogin.gets = RedirectLimit /\ doLogin.posts = 1
  /\ doLogin.follows = FollowLimit /\ doLogin.exchanges = 1

\* C35: every API request is sent with the session's access token of that
\* moment, and the retry sent when a forced refresh is answered carries
\* another token than the request that was answered 401.
C35_CurrentTokenAttached ==
  [][ \A p \in Procs :
        RequestSent(p)
          => /\ call'[p].tok = auth'.accessToken
             /\ call[p].pc = "forced" => call'[p].tok # call[p].tok ]_vars

\* a retry is in flight with the current token while a later poll cycle has
\* a request of its own in flight
C35_Witness ==
  \E p, q \in Procs :
    /\ p # q
    /\ call[p].pc = "http" /\ ~call[p].retry /\ call[p].tok = auth.accessToken
    /\ call[q].pc = "http" /\ call[q].retry /\ call[q].tok = auth.accessToken

\* onReady has returned
StartupFinished == ready.pc \in {"done", "failed"}

\* C36: once onReady has returned and onUnload has run, in whatever order,
\* no poll timer is armed.
C36_NoTimerAfterStartupAndShutdown ==
  (StartupFinished /\ Unloaded) => ~pollTimer.armed

\* both writes have returned, and they wrote different fields
BothWritten ==
  /\ \A x \in Writers : writers.w[x].pc = "done"
  /\ Keys(writers.w[1].fields) \cap Keys(writers.w[2].fields) = {}

\* C37: after two writes of different fields to the same appliance have
\* both returned, the command the cloud holds has the values of both.
C37_OverlappingWritesKeepBoth ==
  BothWritten
    => \A x \in Writers : \A k \in Keys(writers.w[x].fields) :
         Get(writers.server.command, k) = Get(writers.w[x].fields, k)

\* the turn just taken was a call of onStateChange
EventHandled == turn'.event # NoEvent
\* the state change is an unacknowledged truthy value on one of the six
\* control ids of an appliance in the registry, and the client exists
CommandRequested ==
  LET e == turn'.event IN
  /\ e.state.exists /\ ~e.state.ack /\ Truthy(e.state.val)
  /\ e.tail \in SixControls
  /\ e.id \in devices
  /\ client

\* C38: a call of onStateChange sends a request (the GET of the command
\* write, or the renewal before it) or starts a command only when the change
\* is an unacknowledged truthy value on one of the six control ids of an
\* appliance in the registry while the client exists; such a change sends a
\* request unless getAccessToken throws. Every other call sends nothing.
C38_CommandOnlyForControlWrite ==
  [][ EventHandled
        => /\ (turn'.sent > 0 \/ task'[CmdProc].step # "idle")
                => CommandRequested
           /\ CommandRequested
                => (turn'.sent > 0 \/ turn'.threw # {}) ]_vars

\* an unacknowledged 1 on controls.resetFilter of the registered Sense Guard
\* has sent the GET of the command write
C38_Witness ==
  /\ turn.event.tail = "controls.resetFilter"
  /\ turn.event.state.val = "one"
  /\ turn.sent = 1 /\ task[CmdProc].step = "get"
  /\ call[CmdProc].pc = "http"

====
